---- MODULE Spec2Model ----
(***************************************************************************)
(* The chat panel of src/src/components/ChatPanel.tsx as a state machine:  *)
(* the per-room message cache (React state), the persisted copy in         *)
(* localStorage, the Pusher subscription, the sends in flight and the      *)
(* passive effects React has scheduled but not yet run.                    *)
(*                                                                         *)
(* React semantics the translation relies on:                              *)
(*  - a handler's closure keeps the currentRoom, username and userId of    *)
(*    the render it was created in (the Pusher handler: of the render in   *)
(*    which the subscription effect ran; an async sendMessage: of the      *)
(*    render in which it was called);                                      *)
(*  - setRoomCache(updater) runs the updater on the latest state, and an   *)
(*    updater that returns prev schedules no render and no effect;         *)
(*  - useEffect bodies run after the commit, in declaration order, and     *)
(*    before the next render; an update queued by a handler is applied     *)
(*    before an update queued by an effect flushed after it.               *)
(* The HTTP endpoint and the pub/sub service are the environment: response *)
(* bodies and event payloads are drawn from small sets.                    *)
(***************************************************************************)
EXTENDS Integers, Sequences, FiniteSets, TLC

VARIABLES
    roomCache,     \* room -> [def, msgs]: useState<Record<string, ChatMessage[]>>
    currentRoom,   \* useState("General")
    input,         \* text of the message box
    username,      \* display name
    userId,        \* persistent sender identifier
    showDialog,    \* the username dialog is open
    localStorage,  \* room -> persisted entry "chat-cache-<room>"
    storedName,    \* persisted entry "chat-username"
    sub,           \* room whose channel has the handler bound, or None
    channels,      \* the live Pusher connections of the panel
    pending,       \* passive effects scheduled by the last render
    sends,         \* one record per sendMessage call, in call order
    now,           \* Date.now(), in ms
    crashed,       \* an effect threw: the component is unmounted
    last,          \* history: the last operation and its arguments
    used,          \* history: how often each bounded operation has run, the
                   \* events delivered so far, and the list the last of them
                   \* left in its room
    relay,         \* the relay endpoint and the pub/sub service behind it
    sw,            \* the service worker: notifications, windows, last event
    beams          \* the PushInit component: the runs of its effect

vars == <<roomCache, currentRoom, input, username, userId, showDialog,
          localStorage, storedName, sub, channels, pending, sends, now, crashed,
          last, used, relay, sw, beams>>

\* what no handler of the chat panel reads or writes
outside == <<relay, sw, beams>>

(***************************************************************************)
(* Bounds of the model.                                                    *)
(***************************************************************************)
MaxSends == 2
MaxEvents == 3
MaxSwitches == 2
MaxTicks == 2
MaxClears == 1
MaxRenames == 1
\* sends, events, room switches, clock advances, clears and renames of one run
MaxOps == 4

(***************************************************************************)
(* Program constants.                                                      *)
(***************************************************************************)
INITIAL_ROOMS == <<"General", "Random", "Tech">>
MESSAGE_LIMIT == 100
DUPLICATE_WINDOW_MS == 5000

\* undefined / null / absent key
None == "none"
\* timestamp encodings: n >= 0 is the ISO string of the instant n ms,
\* NoTs is undefined or null, BadTs is a string Date cannot parse.
NoTs == 0 - 1
BadTs == 0 - 2
\* one step of the clock: one step apart is inside the duplicate window,
\* two steps apart are outside
Tick == 4000

Rooms == {INITIAL_ROOMS[i] : i \in DOMAIN INITIAL_ROOMS}

Names == {"alice", "al"}
Inputs == {" ", "hi"}

(***************************************************************************)
(* ChatMessage (lines 31-39).  A field that is undefined, null or absent   *)
(* is None (NoTs for the timestamp); local is "true", "false" or None.     *)
(***************************************************************************)
ChatMessage(id, clientId, uid, name, message, timestamp, local) ==
    [id |-> id, clientId |-> clientId, userId |-> uid, username |-> name,
     message |-> message, timestamp |-> timestamp, local |-> local]

\* JavaScript truthiness of a string-or-undefined value
Truthy(s) == s # None /\ s # ""

\* no trimming: whitespace counts as text
noTrim(s) == s

\* String.prototype.trim on the texts of the model
trim(s) == IF s = " " THEN "" ELSE s

\* generateClientId (lines 46-48): a fresh identifier per call
generateClientId(n) == "c-" \o ToString(n)

\* generateUserId (lines 49-51) / the stored "chat-user-id"
generateUserId == "u1"

\* no slice: the list keeps every entry
keepAll(list, n) == list

\* slice(0, n) in place of slice(-n): the newest entries are dropped
sliceFirst(list, n) ==
    IF Len(list) <= n THEN list ELSE SubSeq(list, 1, n)

\* Array.prototype.slice(-n)
sliceLast(list, n) ==
    IF Len(list) <= n THEN list ELSE SubSeq(list, Len(list) - n + 1, Len(list))

\* Array.prototype.findIndex(m => m.clientId === cid), 1-based, 0 for -1
findIndexClientId(list, cid) ==
    IF \E i \in DOMAIN list : list[i].clientId = cid
    THEN CHOOSE i \in DOMAIN list :
            /\ list[i].clientId = cid
            /\ \A j \in DOMAIN list : list[j].clientId = cid => i <= j
    ELSE 0

\* ts ? new Date(ts).getTime() : NaN, with NaN encoded as a negative number
getTime(ts) == IF ts >= 0 THEN ts ELSE NoTs
isNaN(t) == t < 0
Abs(x) == IF x < 0 THEN 0 - x ELSE x

\* the predicate of the fuzzy duplicate detection (lines 148-153)
fuzzyMatch(m, msg) ==
    IF m.username # msg.username \/ m.message # msg.message THEN FALSE
    ELSE LET t1 == getTime(m.timestamp)
             t2 == getTime(msg.timestamp)
         IN ~isNaN(t1) /\ ~isNaN(t2) /\ Abs(t1 - t2) < DUPLICATE_WINDOW_MS

existsFuzzy(roomMsgs, msg) == \E i \in DOMAIN roomMsgs : fuzzyMatch(roomMsgs[i], msg)

\* { ...old, ...msg }: every message that reaches a merge is built by an
\* object literal that lists all seven keys (lines 169-177 and 223-231), so
\* each field of the result is the incoming one, undefined included.
spread(old, msg) ==
    [id |-> msg.id, clientId |-> msg.clientId, userId |-> msg.userId,
     username |-> msg.username, message |-> msg.message,
     timestamp |-> msg.timestamp, local |-> msg.local]

\* upsertList with the server-identifier check ahead of the client-identifier
\* match
upsertListIdFirst(roomMsgs, msg) ==
    LET idx == IF Truthy(msg.clientId) THEN findIndexClientId(roomMsgs, msg.clientId) ELSE 0
    IN  IF Truthy(msg.id) /\ \E i \in DOMAIN roomMsgs : roomMsgs[i].id = msg.id
        THEN [same |-> TRUE, msgs |-> roomMsgs]
        ELSE IF idx # 0
        THEN [same |-> FALSE,
              msgs |-> sliceLast([roomMsgs EXCEPT ![idx] =
                                    [spread(roomMsgs[idx], msg) EXCEPT !.local = "false"]],
                                 MESSAGE_LIMIT)]
        ELSE IF existsFuzzy(roomMsgs, msg)
        THEN [same |-> TRUE, msgs |-> roomMsgs]
        ELSE [same |-> FALSE, msgs |-> sliceLast(Append(roomMsgs, msg), MESSAGE_LIMIT)]

\* upsertList that moves the entry it replaces to the end of the list
upsertListMoveLast(roomMsgs, msg) ==
    LET idx == IF Truthy(msg.clientId) THEN findIndexClientId(roomMsgs, msg.clientId) ELSE 0
        rest == [k \in 1..(Len(roomMsgs) - 1) |->
                    IF k < idx THEN roomMsgs[k] ELSE roomMsgs[k + 1]]
    IN  IF idx # 0
        THEN [same |-> FALSE,
              msgs |-> sliceLast(Append(rest, [spread(roomMsgs[idx], msg)
                                                  EXCEPT !.local = "false"]),
                                 MESSAGE_LIMIT)]
        ELSE IF Truthy(msg.id) /\ \E i \in DOMAIN roomMsgs : roomMsgs[i].id = msg.id
        THEN [same |-> TRUE, msgs |-> roomMsgs]
        ELSE IF existsFuzzy(roomMsgs, msg)
        THEN [same |-> TRUE, msgs |-> roomMsgs]
        ELSE [same |-> FALSE, msgs |-> sliceLast(Append(roomMsgs, msg), MESSAGE_LIMIT)]

\* upsertList with a fuzzy check that ignores the timestamps
upsertListNoWindow(roomMsgs, msg) ==
    LET idx == IF Truthy(msg.clientId) THEN findIndexClientId(roomMsgs, msg.clientId) ELSE 0
    IN  IF idx # 0
        THEN [same |-> FALSE,
              msgs |-> sliceLast([roomMsgs EXCEPT ![idx] =
                                    [spread(roomMsgs[idx], msg) EXCEPT !.local = "false"]],
                                 MESSAGE_LIMIT)]
        ELSE IF Truthy(msg.id) /\ \E i \in DOMAIN roomMsgs : roomMsgs[i].id = msg.id
        THEN [same |-> TRUE, msgs |-> roomMsgs]
        ELSE IF \E i \in DOMAIN roomMsgs :
                   roomMsgs[i].username = msg.username /\ roomMsgs[i].message = msg.message
        THEN [same |-> TRUE, msgs |-> roomMsgs]
        ELSE [same |-> FALSE, msgs |-> sliceLast(Append(roomMsgs, msg), MESSAGE_LIMIT)]

(***************************************************************************)
(* The updater of upsertRoomMessage (lines 132-158) on one room's list:    *)
(* same is TRUE where the updater returns prev.                            *)
(***************************************************************************)
upsertList(roomMsgs, msg) ==
    LET idx == IF Truthy(msg.clientId) THEN findIndexClientId(roomMsgs, msg.clientId) ELSE 0
    IN  IF idx # 0
        THEN [same |-> FALSE,
              msgs |-> sliceLast([roomMsgs EXCEPT ![idx] =
                                    [spread(roomMsgs[idx], msg) EXCEPT !.local = "false"]],
                                 MESSAGE_LIMIT)]
        ELSE IF Truthy(msg.id) /\ \E i \in DOMAIN roomMsgs : roomMsgs[i].id = msg.id
        THEN [same |-> TRUE, msgs |-> roomMsgs]
        ELSE IF existsFuzzy(roomMsgs, msg)
        THEN [same |-> TRUE, msgs |-> roomMsgs]
        ELSE [same |-> FALSE, msgs |-> sliceLast(Append(roomMsgs, msg), MESSAGE_LIMIT)]

\* prev[room] || []
listOf(cache, room) == IF cache[room].def THEN cache[room].msgs ELSE <<>>
\* { ...prev, [room]: list }
withRoom(cache, room, list) == [cache EXCEPT ![room] = [def |-> TRUE, msgs |-> list]]

\* upsertRoomMessage (lines 131-159) with the currentRoom of its closure
upsertRoomMessage(prev, room, msg) ==
    LET r == upsertList(listOf(prev, room), msg)
    IN  [same |-> r.same,
         cache |-> IF r.same THEN prev ELSE withRoom(prev, room, r.msgs)]

\* the optimistic update of sendMessage (lines 209-212)
optimisticUpdate(prev, room, optimistic) ==
    withRoom(prev, room, sliceLast(Append(listOf(prev, room), optimistic), MESSAGE_LIMIT))

\* the replacement of the optimistic message by the response (lines 234-243)
replaceOptimistic(prev, room, clientId, normalized) ==
    LET roomMsgs == listOf(prev, room)
        idx == findIndexClientId(roomMsgs, clientId)
    IN  IF idx # 0
        THEN withRoom(prev, room,
                 sliceLast([roomMsgs EXCEPT ![idx] = spread(roomMsgs[idx], normalized)],
                           MESSAGE_LIMIT))
        ELSE withRoom(prev, room, sliceLast(Append(roomMsgs, normalized), MESSAGE_LIMIT))

(***************************************************************************)
(* localStorage helpers (lines 79-88).  A persisted entry is absent, a     *)
(* JSON text of a message list, or a text JSON.parse rejects.              *)
(***************************************************************************)
Absent == [kind |-> "absent", val |-> <<>>]
Corrupt == [kind |-> "corrupt", val |-> <<>>]
\* JSON.stringify(messages): keys whose value is undefined are dropped,
\* which reads back as undefined
JSONstringify(messages) == [kind |-> "json", val |-> messages]
\* JSON.parse throws on this entry
parseThrows(stored) == stored.kind = "corrupt"
\* loadRoomCache (lines 81-84), where it does not throw
loadRoomCache(storage, room) ==
    IF storage[room].kind = "json" THEN storage[room].val ELSE <<>>
\* saveRoomCache with a storage key that leaves out the room
saveUnderOneKey(storage, room, messages) ==
    [storage EXCEPT ![INITIAL_ROOMS[1]] = JSONstringify(messages)]
\* saveRoomCache (lines 86-88)
saveRoomCache(storage, room, messages) ==
    [storage EXCEPT ![room] = JSONstringify(messages)]

(***************************************************************************)
(* The relay endpoint (src/unnamed/part_001, lines 12-21) and the channel   *)
(* the panel subscribes to (ChatPanel.tsx, line 167).                      *)
(***************************************************************************)
\* `chat-${currentRoom}`
channelName(room) == "chat-" \o room

\* POST on the request body JSON.stringify({ ...optimistic, room }): the
\* pusher.trigger call it makes
relayTrigger(req) ==
    [channel |-> "chat-channel", event |-> "new-message",
     data |-> ChatMessage(None, None, None, req.username, req.message, NoTs, None)]
\* the response body { success: true }: none of the fields of a message
relayResponse == ChatMessage(None, None, None, None, None, NoTs, None)

\* published: the triggers in order, each with the number of the send that
\* caused it; next: the first trigger the service has not yet delivered;
\* awaiting: the sends whose request is suspended at await pusher.trigger;
\* answered: the sends whose request was answered with { success: true };
\* failed: the sends whose request ended in a throw of POST, which the
\* framework answers with status 500
NoRelay == [published |-> <<>>, next |-> 1, awaiting |-> {}, answered |-> {}, failed |-> {}]

(***************************************************************************)
(* The service worker (src/unnamed/part_000).                              *)
(***************************************************************************)
\* notifications: the notifications shown so far, in order; windows: the
\* window clients, in the order of clients.matchAll; canOpen: the browser
\* provides clients.openWindow; clicks: the clicks whose clients.matchAll
\* promise has not settled yet, oldest first, each with the notification, the
\* url read from it and the client list matchAll will answer with, which is
\* the window clients at the time of the call; last: the last event handled
\* ("click": the listener has returned; "then": the callback of matchAll
\* has run)
NoEvent ==
    [op |-> "none", n |-> 0, focused |-> 0, opened |-> None,
     data |-> [kind |-> "none",
               payload |-> [title |-> None, body |-> None, icon |-> None, url |-> None]]]
NoWorker ==
    [notifications |-> <<>>, windows |-> <<>>, canOpen |-> TRUE, clicks |-> <<>>,
     last |-> NoEvent]

\* The data of a push event: none (event.data is null), a text that json()
\* rejects, the JSON text null, or a JSON object; of the object only
\* notification.title, .body, .icon and .url are read, each None where the
\* key or the notification object is absent.
Notification(title, body, icon, url) ==
    [title |-> title, body |-> body, icon |-> icon, url |-> url]
PushData ==
    { [kind |-> k, payload |-> Notification(None, None, None, None)] :
         k \in {"none", "bad", "null"} }
    \cup { [kind |-> "json", payload |-> p] :
              p \in { Notification(None, None, None, None),
                      Notification("", None, None, ""),
                      Notification("Hello", "text", "/a.png", "https://app/chat"),
                      Notification("Hello", None, None, None),
                      Notification(None, "text", None, None),
                      Notification(None, None, "/a.png", None),
                      Notification(None, None, None, "/chat"),
                      Notification(None, None, None, "https://app/chat") } }

\* event.data?.json() ?? {} inside try/catch (lines 4-9)
parsePayload(data) ==
    IF data.kind = "json" THEN data.payload ELSE Notification(None, None, None, None)

\* no fallback: the field as it came
noDefault(a, d) == a

\* a || d on strings
orDefault(a, d) == IF Truthy(a) THEN a ELSE d

\* the notification of lines 11-21, shown and not yet closed
showNotification(payload) ==
    [title |-> orDefault(payload.title, "New Notification"),
     body |-> orDefault(payload.body, ""),
     icon |-> orDefault(payload.icon, "/icon.png"),
     url |-> orDefault(payload.url, "/"),
     open |-> TRUE]

\* A window client: its url is absolute; focus: the client has the method.
\* openWindow resolves its argument against the origin of the worker.
WindowClient(url, focus) == [url |-> url, focus |-> focus, focused |-> 0]
resolve(url) == IF url = "/" THEN "https://app/"
                ELSE IF url = "/chat" THEN "https://app/chat" ELSE url

(***************************************************************************)
(* The PushInit component (src/src/components/PushInit.tsx).               *)
(***************************************************************************)
\* supported: "Notification" in window; runs: the runs of the effect of
\* lines 7-44, one per mount, each with the variables of its closure
NoBeams == [supported |-> TRUE, runs |-> <<>>]

\* One run of the effect.  pc: where initBeams stands ("permission", "start"
\* and "interest" are its three awaits); beamsClient: the variable of line 8,
\* None for null; started: start() was called on the client this run
\* created; stopped: stop() was called on it; interest: addDeviceInterest was
\* called on it; cleaned: the cleanup of lines 40-43 has run.
Run(pc) ==
    [pc |-> pc, beamsClient |-> None, started |-> FALSE, stopped |-> FALSE,
     interest |-> FALSE, cleaned |-> FALSE]

(***************************************************************************)
(* Passive effects.  pending names the dependencies that changed in the    *)
(* last render: mount (first render), room (currentRoom), cache            *)
(* (roomCache).                                                            *)
(***************************************************************************)
NoPending == [any |-> FALSE, mount |-> FALSE, room |-> FALSE, cache |-> FALSE]
Pending(mount, room, cache) ==
    [any |-> mount \/ room \/ cache, mount |-> mount, room |-> room, cache |-> cache]

NoMsg == ChatMessage(None, None, None, "", "", NoTs, None)
Op(name, room, msg) == [op |-> name, room |-> room, msg |-> msg]

\* The subscription effect (lines 161-187) on the live connections, oldest
\* first; peak is the largest number of connections that were live at once.
\* a cleanup that leaves the previous connection live
keepSubscription(live) == live

\* cleanup (lines 183-186): unbind the handler and disconnect the connection
\* the previous run of the effect created
unsubscribe(live) == IF live = <<>> THEN live ELSE Tail(live)
\* body (lines 163-181): a new connection, subscribed to the room's channel
subscribe(live, room) == Append(live, room)
Max(a, b) == IF a >= b THEN a ELSE b
\* React runs the cleanup of the previous run, then the body
subscriptionEffect(ch, room) ==
    LET cleaned == unsubscribe(ch.live)
        bound == subscribe(cleaned, room)
    IN  [live |-> bound, peak |-> Max(ch.peak, Max(Len(cleaned), Len(bound)))]
\* the cleanup alone: the body is not reached, or the component unmounts
subscriptionCleanup(ch) == [live |-> unsubscribe(ch.live), peak |-> ch.peak]

\* The effects of lines 115-119 (load), 121-126 (persist) and 161-187
\* (subscription), run on the render they belong to: the committed roomCache
\* and currentRoom, and the storage as the handler before them left it.
\* A throw of JSON.parse inside the load effect unmounts the component:
\* the effects after it (persist, subscription body) do not run, and the
\* subscription's cleanup does.
flushEffects(p, cache, room, storage, bound, ch) ==
    LET roomDep  == p.mount \/ p.room
        throws   == roomDep /\ parseThrows(storage[room])
        hasLoad  == roomDep /\ ~throws
        loaded   == loadRoomCache(storage, room)
        persists == ~throws /\ (roomDep \/ p.cache) /\ cache[room].def
    IN  [crash   |-> throws,
         hasLoad |-> hasLoad,
         loaded  |-> loaded,
         storage |-> IF persists THEN saveRoomCache(storage, room, cache[room].msgs)
                     ELSE storage,
         sub     |-> IF throws THEN None ELSE IF roomDep THEN room ELSE bound,
         channels |-> IF throws THEN subscriptionCleanup(ch)
                      ELSE IF roomDep THEN subscriptionEffect(ch, room) ELSE ch]

noEffects(storage, bound, ch) ==
    [crash |-> FALSE, hasLoad |-> FALSE, loaded |-> <<>>, storage |-> storage, sub |-> bound,
     channels |-> ch]

\* A handler has queued its updates (cache1 from roomCache, changed unless
\* every updater returned prev; newRoom) and written storage1.  React then
\* flushes the effects still pending, renders and schedules the effects of
\* the new render.
Commit(cache1, changed, storage1, newRoom) ==
    \E eff \in {IF pending.any
                THEN flushEffects(pending, roomCache, currentRoom, storage1, sub, channels)
                ELSE noEffects(storage1, sub, channels)} :
        /\ roomCache' = IF eff.hasLoad THEN withRoom(cache1, currentRoom, eff.loaded)
                        ELSE cache1
        /\ localStorage' = eff.storage
        /\ sub' = eff.sub
        /\ channels' = eff.channels
        /\ crashed' = eff.crash
        /\ currentRoom' = newRoom
        /\ pending' = Pending(FALSE, newRoom # currentRoom, changed \/ eff.hasLoad)

Init ==
    /\ roomCache = [r \in Rooms |-> [def |-> FALSE, msgs |-> <<>>]]
    /\ currentRoom = "General"
    /\ input = ""
    /\ username = ""
    /\ userId = ""
    /\ showDialog = FALSE
    /\ localStorage \in {[r \in Rooms |-> IF r \in bad THEN Corrupt ELSE Absent] :
                            bad \in {{"Tech"}, {"General"}}}
    /\ storedName \in {None, "alice"}
    /\ sub = None
    /\ channels = [live |-> <<>>, peak |-> 0]
    /\ pending = Pending(TRUE, TRUE, TRUE)
    /\ sends = <<>>
    /\ now = 0
    /\ crashed = FALSE
    /\ last = Op("init", None, NoMsg)
    /\ used = [events |-> 0, switches |-> 0, clears |-> 0, renames |-> 0, advances |-> 0,
               log |-> <<>>, result |-> <<>>]
    /\ relay = NoRelay
    /\ sw = NoWorker
    /\ beams = NoBeams

\* React runs the scheduled effects; on mount also the effect of lines
\* 97-113 (user id and user name).
RunEffects ==
    /\ ~crashed
    /\ pending.any
    /\ \E eff \in {flushEffects(pending, roomCache, currentRoom, localStorage, sub,
                                channels)} :
           /\ roomCache' = IF eff.hasLoad THEN withRoom(roomCache, currentRoom, eff.loaded)
                           ELSE roomCache
           /\ localStorage' = eff.storage
           /\ sub' = eff.sub
           /\ channels' = eff.channels
           /\ crashed' = eff.crash
           /\ pending' = Pending(FALSE, FALSE, eff.hasLoad)
    /\ IF pending.mount
       THEN /\ userId' = generateUserId
            /\ username' = IF Truthy(storedName) THEN storedName ELSE username
            /\ showDialog' = ~Truthy(storedName)
       ELSE UNCHANGED <<userId, username, showDialog>>
    /\ last' = Op("step", None, NoMsg)
    /\ UNCHANGED <<currentRoom, input, storedName, sends, now, used>>

\* the user can act: mounted, effects run, no modal dialog
Idle == ~crashed /\ ~pending.any /\ ~showDialog

\* A response or an event is handled between a render and its effects only
\* where that matters: while the effects of a room change are pending.
Deliverable == ~crashed /\ (pending.any => pending.room)


\* onChange of the message box (line 557)
TypeInput(v) ==
    /\ Idle
    /\ input' = v
    /\ last' = Op("step", None, NoMsg)
    /\ UNCHANGED <<roomCache, currentRoom, username, userId, showDialog, localStorage,
                   storedName, sub, channels, pending, sends, now, crashed, used>>

\* Date.now() advances by k steps of the clock
Advance(k) ==
    /\ now' = now + k * Tick
    /\ used' = [used EXCEPT !.advances = @ + 1]
    /\ last' = Op("step", None, NoMsg)
    /\ UNCHANGED <<roomCache, currentRoom, input, username, userId, showDialog,
                   localStorage, storedName, sub, channels, pending, sends, crashed>>

\* sendMessage up to its await (lines 195-219)
sendMessage ==
    /\ Idle
    /\ IF ~Truthy(trim(input))
       THEN /\ last' = Op("send-rejected", currentRoom, NoMsg)
            /\ UNCHANGED <<roomCache, currentRoom, localStorage, sub, channels, pending, sends,
                           crashed>>
       ELSE LET clientId == generateClientId(Len(sends) + 1)
                optimistic == ChatMessage(None, clientId, userId, username, input,
                                          now, "true")
            IN  /\ Commit(optimisticUpdate(roomCache, currentRoom, optimistic), TRUE,
                          localStorage, currentRoom)
                /\ sends' = Append(sends, [clientId |-> clientId, room |-> currentRoom,
                                           userId |-> userId, username |-> username,
                                           message |-> input, timestamp |-> now,
                                           status |-> "inflight", posts |-> 1,
                                           body |-> NoMsg, echoed |-> FALSE])
                /\ last' = Op("send", currentRoom, optimistic)
    /\ UNCHANGED <<input, username, userId, showDialog, storedName, now, used>>

\* a ?? b on strings, and on timestamps
orElse(a, b) == IF a = None THEN b ELSE a
tsOrElse(a, b) == IF a = NoTs THEN b ELSE a

\* the identifier the server assigns to the message of send number i
serverIdOf(i) == "s-" \o ToString(i)

\* The JSON bodies a successful response may carry for send number i: the
\* canonical message {id, clientId, username, message, timestamp}, the same
\* without its id, a body with the id alone, and a body with none of the
\* fields (the { success: true } of the route in src/unnamed/part_001).
ResponseBodies(i) ==
    LET s == sends[i]
    IN  { ChatMessage(serverIdOf(i), s.clientId, s.userId, s.username, s.message,
                      s.timestamp, None),
          ChatMessage(None, s.clientId, s.userId, s.username, s.message,
                      s.timestamp, None),
          ChatMessage(serverIdOf(i), None, None, None, None, NoTs, None),
          ChatMessage(None, None, None, None, None, NoTs, None) }

\* the normalized server message of lines 223-231
normalizeResponse(s, serverMsg) ==
    ChatMessage(serverMsg.id,
                orElse(serverMsg.clientId, s.clientId),
                orElse(serverMsg.userId, s.userId),
                orElse(serverMsg.username, s.username),
                orElse(serverMsg.message, s.message),
                tsOrElse(serverMsg.timestamp, now),
                "false")

\* HttpOk writing the room that is active when the response arrives
HttpOkActiveRoom(i, serverMsg) ==
    \E s \in {sends[i]} :
    \E normalized \in {normalizeResponse(s, serverMsg)} :
        /\ s.status = "inflight"
        /\ Deliverable
        /\ Commit(replaceOptimistic(roomCache, currentRoom, s.clientId, normalized), TRUE,
                  localStorage, currentRoom)
        /\ sends' = [sends EXCEPT ![i].status = "ok", ![i].body = serverMsg]
        /\ input' = ""
        /\ last' = Op("response", s.room, normalized)
        /\ UNCHANGED <<username, userId, showDialog, storedName, now, used>>

\* sendMessage after its await, res.ok (lines 221-244, 249)
HttpOk(i, serverMsg) ==
    \E s \in {sends[i]} :
    \E normalized \in {normalizeResponse(s, serverMsg)} :
        /\ s.status = "inflight"
        /\ Deliverable
        /\ Commit(replaceOptimistic(roomCache, s.room, s.clientId, normalized), TRUE,
                  localStorage, currentRoom)
        /\ sends' = [sends EXCEPT ![i].status = "ok", ![i].body = serverMsg]
        /\ input' = ""
        /\ last' = Op("response", s.room, normalized)
        /\ UNCHANGED <<username, userId, showDialog, storedName, now, used>>

\* HttpFail that clears the local flag of the optimistic entry
HttpFailConfirms(i, how) ==
    LET s == sends[i]
        list == listOf(roomCache, s.room)
        marked == [k \in DOMAIN list |->
                     IF list[k].clientId = s.clientId
                     THEN [list[k] EXCEPT !.local = "false"] ELSE list[k]]
    IN  /\ Deliverable
        /\ s.status = "inflight"
        /\ Commit(withRoom(roomCache, s.room, marked), TRUE, localStorage, currentRoom)
        /\ sends' = [sends EXCEPT ![i].status = how]
        /\ input' = ""
        /\ last' = Op(how, s.room, NoMsg)
        /\ UNCHANGED <<username, userId, showDialog, storedName, now, used>>

\* HttpFail that takes the optimistic entry back out of the list
HttpFailRollback(i, how) ==
    LET s == sends[i]
        kept == SelectSeq(listOf(roomCache, s.room), LAMBDA m : m.clientId # s.clientId)
    IN  /\ Deliverable
        /\ s.status = "inflight"
        /\ Commit(withRoom(roomCache, s.room, kept), TRUE, localStorage, currentRoom)
        /\ sends' = [sends EXCEPT ![i].status = how]
        /\ input' = ""
        /\ last' = Op(how, s.room, NoMsg)
        /\ UNCHANGED <<username, userId, showDialog, storedName, now, used>>

\* sendMessage after its await, fetch threw or !res.ok (lines 221, 245-249)
HttpFail(i, how) ==
    LET s == sends[i]
    IN  /\ Deliverable
        /\ s.status = "inflight"
        /\ Commit(roomCache, FALSE, localStorage, currentRoom)
        /\ sends' = [sends EXCEPT ![i].status = how]
        /\ input' = ""
        /\ last' = Op(how, s.room, NoMsg)
        /\ UNCHANGED <<username, userId, showDialog, storedName, now, used>>

\* The payloads the channel may deliver.  The echo of send number i carries
\* the request's sender and text, and may or may not carry the server
\* identifier, the client identifier and the request's timestamp.
EchoPayloads(i) ==
    LET s == sends[i]
        echo(id, cid, ts) == ChatMessage(id, cid, s.userId, s.username, s.message, ts, None)
    IN  { echo(serverIdOf(i), s.clientId, s.timestamp),
          echo(serverIdOf(i), None, s.timestamp),
          echo(serverIdOf(i), None, NoTs),
          echo(None, s.clientId, s.timestamp),
          echo(None, None, NoTs) }
\* A message of another user: any timestamp up to now, none, or one that
\* Date cannot parse.
Times == {t \in 0..now : t % Tick = 0}
ForeignPayloads ==
    { ChatMessage(None, None, "u2", "bob", "hi", ts, None) : ts \in {BadTs} \cup Times }
    \cup { ChatMessage("s-bob", None, "u2", "bob", "hi", NoTs, None) }
\* an event without data
EmptyPayload == ChatMessage(None, None, None, None, None, NoTs, None)
\* the channel of room carries the echoes of the sends made to room
Payloads(room) ==
    UNION {EchoPayloads(i) : i \in {j \in DOMAIN sends : sends[j].room = room}}
    \cup ForeignPayloads \cup {EmptyPayload}

\* the incoming message the handler builds (lines 169-177)
normalizeEvent(data) ==
    ChatMessage(data.id, data.clientId, data.userId,
                orElse(data.username, "Unknown"),
                orElse(data.message, ""),
                tsOrElse(data.timestamp, now),
                "false")

\* PusherEvent writing the room that is active when the event arrives
PusherEventActiveRoom(data) ==
    /\ Deliverable
    /\ sub # None
    /\ \E incoming \in {normalizeEvent(data)} :
       \E r \in {upsertRoomMessage(roomCache, currentRoom, incoming)} :
          /\ Commit(r.cache, ~r.same, localStorage, currentRoom)
          /\ used' = [used EXCEPT !.events = @ + 1,
                                  !.log = Append(@, [room |-> sub, msg |-> incoming]),
                                  !.result = listOf(r.cache, sub)]
          /\ sends' = [i \in DOMAIN sends |->
                          IF sends[i].clientId = incoming.clientId
                          THEN [sends[i] EXCEPT !.echoed = TRUE] ELSE sends[i]]
          /\ last' = Op("event", sub, incoming)
    /\ UNCHANGED <<input, username, userId, showDialog, storedName, now>>

\* The bound handler receives a "new-message" event (lines 168-179).  Its
\* upsertRoomMessage is the one of the render that subscribed, so it writes
\* the room sub.
PusherEvent(data) ==
    /\ Deliverable
    /\ sub # None
    /\ \E incoming \in {normalizeEvent(data)} :
       \E r \in {upsertRoomMessage(roomCache, sub, incoming)} :
          /\ Commit(r.cache, ~r.same, localStorage, currentRoom)
          /\ used' = [used EXCEPT !.events = @ + 1,
                                  !.log = Append(@, [room |-> sub, msg |-> incoming]),
                                  !.result = listOf(r.cache, sub)]
          /\ sends' = [i \in DOMAIN sends |->
                          IF sends[i].clientId = incoming.clientId
                          THEN [sends[i] EXCEPT !.echoed = TRUE] ELSE sends[i]]
          /\ last' = Op("event", sub, incoming)
    /\ UNCHANGED <<input, username, userId, showDialog, storedName, now>>

\* handleRoomChange (lines 253-265).  A throw of loadRoomCache leaves the
\* handler after setCurrentRoom was queued.
handleRoomChange(room) ==
    LET loads  == ~roomCache[room].def
        throws == loads /\ parseThrows(localStorage[room])
        cache1 == IF loads /\ ~throws
                  THEN withRoom(roomCache, room, loadRoomCache(localStorage, room))
                  ELSE roomCache
    IN  /\ Idle
        /\ Commit(cache1, loads /\ ~throws, localStorage, room)
        /\ used' = [used EXCEPT !.switches = @ + 1]
        /\ last' = Op("switch", room, NoMsg)
        /\ UNCHANGED <<input, username, userId, showDialog, storedName, sends, now>>

\* clearCache that empties every room, in memory and in the storage
clearEveryRoom ==
    /\ Idle
    /\ Commit([r \in DOMAIN roomCache |-> [def |-> TRUE, msgs |-> <<>>]], TRUE,
              [r \in DOMAIN localStorage |-> Absent], currentRoom)
    /\ used' = [used EXCEPT !.clears = @ + 1]
    /\ last' = Op("clear", currentRoom, NoMsg)
    /\ UNCHANGED <<input, username, userId, showDialog, storedName, sends, now>>

\* clearCache (lines 90-94)
clearCache ==
    /\ Idle
    /\ Commit(withRoom(roomCache, currentRoom, <<>>), TRUE,
              [localStorage EXCEPT ![currentRoom] = Absent], currentRoom)
    /\ used' = [used EXCEPT !.clears = @ + 1]
    /\ last' = Op("clear", currentRoom, NoMsg)
    /\ UNCHANGED <<input, username, userId, showDialog, storedName, sends, now>>

\* openUsernameDialog (lines 299-302)
openUsernameDialog ==
    /\ Idle
    /\ showDialog' = TRUE
    /\ last' = Op("step", None, NoMsg)
    /\ UNCHANGED <<roomCache, currentRoom, input, username, userId, localStorage,
                   storedName, sub, channels, pending, sends, now, crashed, used>>

\* the first updater of handleUsernameSubmit (lines 277-285)
renameAll(prev, uid, newName) ==
    [room \in DOMAIN prev |->
        IF prev[room].def
        THEN [def |-> TRUE,
              msgs |-> [k \in DOMAIN prev[room].msgs |->
                          IF prev[room].msgs[k].userId = uid
                          THEN [prev[room].msgs[k] EXCEPT !.username = newName]
                          ELSE prev[room].msgs[k]]]
        ELSE prev[room]]

\* handleUsernameSubmit (lines 268-297) on the dialog text
handleUsernameSubmit(usernameInput) ==
    LET newName == trim(usernameInput)
        renamed == renameAll(roomCache, userId, newName)
        systemMsg == ChatMessage(None, None, None, "System",
                                 username \o " changed their name to " \o newName,
                                 now, None)
        cache1 == IF Truthy(username) /\ newName # username
                  THEN upsertRoomMessage(renamed, currentRoom, systemMsg).cache
                  ELSE renamed
    IN  /\ ~crashed /\ ~pending.any /\ showDialog
        /\ IF ~Truthy(newName)
           THEN /\ last' = Op("rename-rejected", currentRoom, NoMsg)
                /\ UNCHANGED <<roomCache, currentRoom, username, showDialog, localStorage,
                               storedName, sub, channels, pending, crashed, used>>
           ELSE /\ Commit(cache1, TRUE, localStorage, currentRoom)
                /\ username' = newName
                /\ storedName' = newName
                /\ showDialog' = FALSE
                /\ used' = [used EXCEPT !.renames = @ + 1]
                /\ last' = Op("rename", currentRoom, NoMsg)
        /\ UNCHANGED <<input, userId, sends, now>>

\* The bounds of a run: at most MaxOps bounded operations, and of each
\* kind at most its own maximum.
Ops == Len(sends) + used.events + used.switches + used.clears + used.renames
       + used.advances
More == Ops < MaxOps

Next ==
    \/ RunEffects /\ UNCHANGED outside
    \/ More /\ Len(sends) < MaxSends /\ input = "" /\ UNCHANGED outside
       /\ \E v \in Inputs : TypeInput(v)
    \/ More /\ UNCHANGED outside
       /\ \E k \in 1..MaxTicks : now + k * Tick <= MaxTicks * Tick /\ Advance(k)
    \/ (Truthy(trim(input)) => More /\ Len(sends) < MaxSends) /\ sendMessage
       /\ UNCHANGED outside
    \/ UNCHANGED outside
       /\ \E i \in DOMAIN sends : \E body \in ResponseBodies(i) : HttpOk(i, body)
    \/ UNCHANGED outside
       /\ \E i \in DOMAIN sends : \E how \in {"threw", "not-ok"} : HttpFail(i, how)
    \/ More /\ used.events < MaxEvents /\ sub # None /\ UNCHANGED outside
       /\ \E data \in Payloads(sub) : PusherEvent(data)
    \/ More /\ used.switches < MaxSwitches /\ UNCHANGED outside
       /\ \E room \in Rooms : handleRoomChange(room)
    \/ More /\ used.clears < MaxClears /\ clearCache /\ UNCHANGED outside
    \/ More /\ used.renames < MaxRenames /\ openUsernameDialog /\ UNCHANGED outside
    \/ UNCHANGED outside
       /\ \E text \in Names \cup {" "} :
             (Truthy(trim(text)) => More /\ used.renames < MaxRenames)
             /\ handleUsernameSubmit(text)

Spec == Init /\ [][Next]_vars

(***************************************************************************)
(* Properties.                                                             *)
(***************************************************************************)
\* the positions of list whose entry has client identifier cid
withClientId(list, cid) == {k \in DOMAIN list : list[k].clientId = cid}
\* the operation just handled is the response to, or an echo of, send i
JustArrived(i) ==
    /\ last.op \in {"response", "event"}
    /\ last.msg.clientId = sends[i].clientId

\* C1: a send from a room that stays active, whose response and echo both
\* carry its client identifier, ends with exactly one entry for it, holding
\* the server identifier and local = false, whichever of the two arrived last.
C1_OneConfirmedEntryEitherOrder ==
    \A i \in DOMAIN sends :
        LET s == sends[i]
            list == roomCache[s.room].msgs
            hits == withClientId(list, s.clientId)
        IN  ( /\ used.switches = 0
              /\ s.status = "ok"
              /\ s.body.clientId = s.clientId
              /\ s.body.id = serverIdOf(i)
              /\ s.echoed
              /\ JustArrived(i) )
            => /\ Cardinality(hits) = 1
               /\ \A k \in hits : list[k].id = serverIdOf(i) /\ list[k].local = "false"

\* the step handles an event / the response of send i
EventStep == used'.events = used.events + 1
ResponseStep(i) == sends[i].status = "inflight" /\ sends'[i].status = "ok"
\* first position of a non-empty set of positions
First(hits) == CHOOSE k \in hits : \A j \in hits : k <= j
\* room r is untouched by the step, or was reloaded by the pending load effect
UntouchedOrReloaded(r) ==
    \/ roomCache'[r] = roomCache[r]
    \/ /\ pending.room /\ r = currentRoom
       /\ roomCache'[r] = [def |-> TRUE,
                           msgs |-> IF localStorage[r].kind = "json"
                                    THEN localStorage[r].val ELSE <<>>]

\* C2: an incoming message whose client identifier equals that of an entry
\* replaces the first such entry in place with the incoming fields and
\* local = false; the length and all other entries stay, also when another
\* entry has the incoming server identifier or is a fuzzy match.
C2_ClientIdMatchReplacesInPlace ==
    [][EventStep =>
        LET m == last'.msg
            before == roomCache[sub].msgs
            after == roomCache'[sub].msgs
            hits == withClientId(before, m.clientId)
        IN  (Truthy(m.clientId) /\ hits # {})
            => /\ Len(after) = Len(before)
               /\ after[First(hits)] = [m EXCEPT !.local = "false"]
               /\ \A j \in DOMAIN before \ {First(hits)} : after[j] = before[j]]_vars

\* C2 witness: an event has replaced the entry of its client identifier
\* while another entry holds the event's server identifier.
C2_Witness ==
    /\ last.op = "event"
    /\ Truthy(last.msg.clientId) /\ Truthy(last.msg.id)
    /\ LET list == roomCache[last.room].msgs
       IN  \E j, k \in DOMAIN list :
              /\ j # k
              /\ list[k] = last.msg
              /\ list[j].id = last.msg.id /\ list[j].clientId # last.msg.clientId

\* C3: no two entries of a room list share a client identifier, and no two
\* share a server identifier.
C3_NoSharedIdentifier ==
    \A room \in Rooms :
        LET list == roomCache[room].msgs
        IN  \A j, k \in DOMAIN list :
                j < k => /\ ~(Truthy(list[j].clientId) /\ list[j].clientId = list[k].clientId)
                         /\ ~(Truthy(list[j].id) /\ list[j].id = list[k].id)

\* C4: once the request of a send has succeeded with a server identifier, the
\* entry of the send's client identifier holds that identifier and
\* local = false after the later of response and echo, echo or no echo.
C4_ConfirmedAfterSuccess ==
    \A i \in DOMAIN sends :
        LET s == sends[i]
            list == roomCache[s.room].msgs
        IN  (s.status = "ok" /\ s.body.id = serverIdOf(i) /\ JustArrived(i))
            => \E k \in withClientId(list, s.clientId) :
                  list[k].id = serverIdOf(i) /\ list[k].local = "false"

\* C5: of two messages with the same sender name, the same text and
\* timestamps within 5000 ms of each other, a room list holds only one.
C5_OneOfTwoNearDuplicates ==
    \A room \in Rooms :
        LET list == roomCache[room].msgs
        IN  \A j, k \in DOMAIN list :
                (/\ j < k
                 /\ list[j].username = list[k].username
                 /\ list[j].message = list[k].message
                 /\ list[j].timestamp >= 0 /\ list[k].timestamp >= 0)
                => Abs(list[j].timestamp - list[k].timestamp) > 5000

\* the events delivered so far that carry no identifier
logged(a) == used.log[a].msg
Anonymous(a) == logged(a).id = None /\ logged(a).clientId = None

\* C6: two delivered messages with the same sender name and text, more than
\* 5000 ms apart, that carry no identifier an entry could match, are both
\* entries of the room list (in a run without clear, room switch or rename).
C6_BothFarApartSurvive ==
    (used.clears = 0 /\ used.switches = 0 /\ used.renames = 0)
    => \A a, b \in DOMAIN used.log :
          ( /\ a < b
            /\ used.log[a].room = used.log[b].room
            /\ Anonymous(a) /\ Anonymous(b)
            /\ logged(a).username = logged(b).username
            /\ logged(a).message = logged(b).message
            /\ logged(a).timestamp >= 0 /\ logged(b).timestamp >= 0
            /\ Abs(logged(a).timestamp - logged(b).timestamp) > 5000 )
          => LET list == roomCache[used.log[a].room].msgs
             IN  \E j, k \in DOMAIN list : j # k /\ list[j] = logged(a) /\ list[k] = logged(b)

(***************************************************************************)
(* Filling one room beyond its capacity: from the mounted panel, events of *)
(* another user with distinct server identifiers and timestamps a full     *)
(* duplicate window apart, then the user's own sends.                      *)
(***************************************************************************)
\* inserts beyond MESSAGE_LIMIT
FillExtra == 2
Inserted == used.events + Len(sends)
FillPayload(k) ==
    ChatMessage("t-" \o ToString(k), None, "u2", "bob", "hi", k * DUPLICATE_WINDOW_MS, None)

InitFill ==
    /\ roomCache = [r \in Rooms |-> [def |-> r = "General", msgs |-> <<>>]]
    /\ currentRoom = "General"
    /\ input = "hi"
    /\ username = "alice"
    /\ userId = generateUserId
    /\ showDialog = FALSE
    /\ localStorage = [r \in Rooms |-> IF r = "General" THEN JSONstringify(<<>>) ELSE Absent]
    /\ storedName = "alice"
    /\ sub = "General"
    /\ channels = [live |-> <<"General">>, peak |-> 1]
    /\ pending = NoPending
    /\ sends = <<>>
    /\ now = 0
    /\ crashed = FALSE
    /\ last = Op("init", None, NoMsg)
    /\ used = [events |-> 0, switches |-> 0, clears |-> 0, renames |-> 0, advances |-> 0,
               log |-> <<>>, result |-> <<>>]
    /\ relay = NoRelay
    /\ sw = NoWorker
    /\ beams = NoBeams

NextFill ==
    \/ RunEffects /\ UNCHANGED outside
    \/ Inserted < MESSAGE_LIMIT + FillExtra /\ Len(sends) = 0 /\ UNCHANGED outside
       /\ PusherEvent(FillPayload(used.events + 1))
    \/ Inserted < MESSAGE_LIMIT + FillExtra /\ sendMessage /\ UNCHANGED outside

SpecFill == InitFill /\ [][NextFill]_vars

\* C7: after more than N = 100 distinct messages were inserted into a room,
\* its list is the last N inserted, in insertion order.
C7_LastHundredInOrder ==
    LET list == roomCache["General"].msgs
        n == Len(list)
    IN  /\ MESSAGE_LIMIT = 100
        /\ n = IF Inserted <= 100 THEN Inserted ELSE 100
        /\ \A k \in 1..n :
              LET g == Inserted - n + k
              IN  IF g <= used.events
                  THEN list[k] = logged(g)
                  ELSE list[k].clientId = sends[g - used.events].clientId

\* C7 witness: N + 1 messages were inserted, by events and by sends, and the
\* list has N entries.
C7_Witness ==
    /\ Inserted = 101
    /\ used.events > 0 /\ Len(sends) > 0
    /\ Len(roomCache["General"].msgs) = 100

\* C8: a room whose persisted entry is not valid JSON loads as an empty
\* list, without an error.
C8_CorruptEntryLoadsEmpty ==
    \A room \in Rooms :
        (parseThrows(localStorage[room]) /\ currentRoom = room /\ ~pending.any)
        => ~crashed /\ roomCache[room].def /\ roomCache[room].msgs = <<>>

\* C9: an event received by the handler of room A's channel changes no
\* list but A's, also when the user has already switched to another room.
C9_EventStaysInItsRoom ==
    [][EventStep =>
        /\ \A r \in Rooms \ {sub} : UntouchedOrReloaded(r)
        /\ \/ roomCache'[sub] = roomCache[sub]
           \/ \E k \in DOMAIN roomCache'[sub].msgs : roomCache'[sub].msgs[k] = last'.msg]_vars

\* C9 witness: an event of the previous room's channel was handled after the
\* switch, and is in the previous room's list and not in the active room's.
C9_Witness ==
    /\ last.op = "event"
    /\ last.room # currentRoom
    /\ \E k \in DOMAIN roomCache[last.room].msgs : roomCache[last.room].msgs[k] = last.msg
    /\ \A k \in DOMAIN roomCache[currentRoom].msgs : roomCache[currentRoom].msgs[k] # last.msg

\* C10: the response of a send made in room A, arriving when another room is
\* active, puts the confirmed message into A's list and changes no other
\* list; a room switch leaves the sends in flight as they are.
C10_ResponseGoesToItsRoom ==
    [][/\ \A i \in DOMAIN sends :
            (ResponseStep(i) /\ currentRoom # sends[i].room)
            => /\ \A r \in Rooms \ {sends[i].room} : UntouchedOrReloaded(r)
               /\ \E k \in DOMAIN roomCache'[sends[i].room].msgs :
                     LET e == roomCache'[sends[i].room].msgs[k]
                     IN  e.clientId = sends[i].clientId /\ e.local = "false"
                         /\ e.id = sends'[i].body.id
       /\ used'.switches = used.switches + 1 => sends' = sends]_vars

\* C10 witness: a response was handled while another room than the send's
\* was active, and the send's room holds the confirmed entry.
C10_Witness ==
    /\ last.op = "response"
    /\ last.room # currentRoom
    /\ \E i \in DOMAIN sends :
          /\ sends[i].status = "ok" /\ sends[i].room = last.room
          /\ \E k \in DOMAIN roomCache[last.room].msgs :
                /\ roomCache[last.room].msgs[k].clientId = sends[i].clientId
                /\ roomCache[last.room].msgs[k].local = "false"
                /\ roomCache[last.room].msgs[k].id = serverIdOf(i)

\* C11: two connections are never live at once, not even while the
\* subscription effect runs, and once the effects of a render have run the one
\* live connection is subscribed to the channel of the active room.
C11_OneLiveSubscription ==
    /\ Len(channels.live) <= 1
    /\ channels.peak <= 1
    /\ (~crashed /\ ~pending.any) => channels.live = <<currentRoom>>

\* C11 witness: the user has switched to Random, the effects have run, and
\* the one live connection is to Random's channel.
C11_Witness ==
    /\ used.switches > 0
    /\ ~crashed /\ ~pending.any
    /\ currentRoom = "Random"
    /\ channels = [live |-> <<"Random">>, peak |-> 1]

(***************************************************************************)
(* The panel together with the relay endpoint: every request of            *)
(* sendMessage is answered by POST, whose trigger the pub/sub service      *)
(* delivers to the handler bound to the trigger's channel, if there is     *)
(* one.  The user has added a room named "channel" (handleAddRoom).        *)
(***************************************************************************)
RelayRooms == Rooms \cup {"channel"}

panel == <<roomCache, currentRoom, input, username, userId, showDialog,
           localStorage, storedName, sub, channels, pending, sends, now, crashed,
           last, used>>

InitRelay ==
    /\ roomCache = [r \in RelayRooms |-> [def |-> r = "General", msgs |-> <<>>]]
    /\ currentRoom = "General"
    /\ input = "hi"
    /\ username = "alice"
    /\ userId = generateUserId
    /\ showDialog = FALSE
    /\ localStorage = [r \in RelayRooms |->
                          IF r = "General" THEN JSONstringify(<<>>) ELSE Absent]
    /\ storedName = "alice"
    /\ sub = "General"
    /\ channels = [live |-> <<"General">>, peak |-> 1]
    /\ pending = NoPending
    /\ sends = <<>>
    /\ now = 0
    /\ crashed = FALSE
    /\ last = Op("init", None, NoMsg)
    /\ used = [events |-> 0, switches |-> 0, clears |-> 0, renames |-> 0, advances |-> 0,
               log |-> <<>>, result |-> <<>>]
    /\ relay = NoRelay
    /\ sw = NoWorker
    /\ beams = NoBeams

\* POST (src/unnamed/part_001, lines 12-18) on the request of send number i,
\* up to its await: the trigger is made
POST(i) ==
    /\ i \notin relay.awaiting \cup relay.answered \cup relay.failed
    /\ relay' = [relay EXCEPT
                    !.published = Append(@, [send |-> i, trigger |-> relayTrigger(sends[i])]),
                    !.awaiting = @ \cup {i}]
    /\ UNCHANGED panel
    /\ UNCHANGED <<sw, beams>>

\* the promise of pusher.trigger settles (lines 15-20): fulfilled, POST
\* returns { success: true }; rejected, POST throws and the request fails
triggerSettled(i, ok) ==
    /\ i \in relay.awaiting
    /\ relay' = [relay EXCEPT
                    !.awaiting = @ \ {i},
                    !.answered = IF ok THEN @ \cup {i} ELSE @,
                    !.failed = IF ok THEN @ ELSE @ \cup {i}]
    /\ UNCHANGED panel
    /\ UNCHANGED <<sw, beams>>

\* the handler of the live connection is bound to the channel and the event
\* of trigger t (ChatPanel.tsx, lines 167 and 181)
Bound(t) == sub # None /\ channelName(sub) = t.channel /\ t.event = "new-message"

\* the service delivers the next trigger to the handler bound to its channel
Deliver ==
    /\ relay.next <= Len(relay.published)
    /\ Bound(relay.published[relay.next].trigger)
    /\ PusherEvent(relay.published[relay.next].trigger.data)
    /\ relay' = [relay EXCEPT !.next = @ + 1]
    /\ UNCHANGED <<sw, beams>>

\* no handler is bound to the channel of the next trigger, or the service
\* did not take the trigger (its promise was rejected): nobody receives it
Drop ==
    /\ relay.next <= Len(relay.published)
    /\ \/ ~Bound(relay.published[relay.next].trigger)
       \/ relay.published[relay.next].send \in relay.failed
    /\ relay' = [relay EXCEPT !.next = @ + 1]
    /\ UNCHANGED panel
    /\ UNCHANGED <<sw, beams>>

NextRelay ==
    \/ RunEffects /\ UNCHANGED outside
    \/ input = "" /\ TypeInput("hi") /\ UNCHANGED outside
    \/ Len(sends) < MaxSends /\ sendMessage /\ UNCHANGED outside
    \/ \E i \in DOMAIN sends : POST(i)
    \/ \E i \in DOMAIN sends : \E ok \in BOOLEAN : triggerSettled(i, ok)
    \/ UNCHANGED outside
       /\ \E i \in DOMAIN sends : i \in relay.answered /\ HttpOk(i, relayResponse)
    \/ UNCHANGED outside
       /\ \E i \in DOMAIN sends : i \in relay.failed /\ HttpFail(i, "not-ok")
    \/ Deliver
    \/ Drop
    \/ used.switches < MaxSwitches /\ UNCHANGED outside
       /\ \E room \in {"General", "channel"} : handleRoomChange(room)

SpecRelay == InitRelay /\ [][NextRelay]_vars

\* C12: a message POSTed to the relay with target room R is republished as a
\* new-message event on the channel the clients viewing R subscribe to, the
\* fixed prefix followed by R.
C12_RepublishedOnRoomChannel ==
    \A k \in DOMAIN relay.published :
        LET t == relay.published[k].trigger
        IN  /\ t.channel = channelName(sends[relay.published[k].send].room)
            /\ t.event = "new-message"

\* the entry is confirmed: server identifier set and local = false
Confirmed(e) == Truthy(e.id) /\ e.local = "false"

\* C13: an entry that is confirmed stays confirmed, with its server
\* identifier, in the next state and so in every later one, also across a
\* switch to another room and back.  An entry is followed by its client
\* identifier; the steps that merge an event or a response into the list,
\* which C1 and C4 are about, are left out.
C13_ConfirmedNeverReverts ==
    [][(~EventStep /\ \A i \in DOMAIN sends : ~ResponseStep(i)) =>
        \A room \in Rooms :
            \A k \in DOMAIN roomCache[room].msgs :
                LET e == roomCache[room].msgs[k]
                IN  (Confirmed(e) /\ Truthy(e.clientId))
                    => \A j \in DOMAIN roomCache'[room].msgs :
                          LET f == roomCache'[room].msgs[j]
                          IN  f.clientId = e.clientId => (f.id = e.id /\ f.local = "false")]_vars

\* C14: an entry of a room's list that carries a client identifier (a
\* message the user sent) is still in that list, under that identifier,
\* after every step that is not a clear of that room (the lists stay below
\* the capacity, so nothing is evicted).
C14_OnlyClearRemoves ==
    [][\A room \in Rooms :
          \A k \in DOMAIN roomCache[room].msgs :
              LET e == roomCache[room].msgs[k]
              IN  \/ ~Truthy(e.clientId)
                  \/ last'.op = "clear" /\ last'.room = room
                  \/ \E j \in DOMAIN roomCache'[room].msgs :
                        roomCache'[room].msgs[j].clientId = e.clientId]_vars

\* the request of send i has failed: fetch threw, or the status was not 2xx
Failed(i) == sends[i].status \in {"threw", "not-ok"}
\* the step is the failure of the request of send i
FailStep(i) == sends[i].status = "inflight" /\ sends'[i].status \in {"threw", "not-ok"}

\* C15: one POST is issued per accepted submit, a failed request is never
\* issued again, and the failure leaves every room list as it is.
C15_FailedSendNoRetryNoRollback ==
    [][/\ \A i \in DOMAIN sends' : sends'[i].posts = 1
       /\ \A i \in DOMAIN sends :
             /\ Failed(i) => sends'[i].status = sends[i].status
             /\ FailStep(i) => /\ Len(sends') = Len(sends)
                               /\ \A r \in Rooms : UntouchedOrReloaded(r)]_vars

\* C15 witness: a request has just failed and its optimistic entry is in the
\* list of the send's room.
C15_Witness ==
    /\ last.op \in {"threw", "not-ok"}
    /\ \E i \in DOMAIN sends :
          /\ Failed(i) /\ sends[i].room = last.room /\ sends[i].posts = 1
          /\ withClientId(roomCache[last.room].msgs, sends[i].clientId) # {}

\* the list of room holds an entry with client identifier cid and local = true
HasLocal(cache, room, cid) ==
    \E k \in DOMAIN cache[room].msgs :
        cache[room].msgs[k].clientId = cid /\ cache[room].msgs[k].local = "true"

\* C16: after the request of a send has failed, its optimistic entry stays
\* in the room list with local = true under every step that is not a clear
\* of that room (nothing is evicted below the capacity).
C16_FailedEntryStaysLocal ==
    [][\A i \in DOMAIN sends :
          ( /\ sends'[i].status \in {"threw", "not-ok"}
            /\ HasLocal(roomCache, sends[i].room, sends[i].clientId)
            /\ ~(last'.op = "clear" /\ last'.room = sends[i].room) )
          => HasLocal(roomCache', sends[i].room, sends[i].clientId)]_vars

\* C16, amended: the same, except that an event which carries the entry's
\* client identifier replaces the entry by the event's message, with
\* local = false.
C16_FailedEntryStaysLocalUntilEcho ==
    [][\A i \in DOMAIN sends :
          ( /\ sends'[i].status \in {"threw", "not-ok"}
            /\ HasLocal(roomCache, sends[i].room, sends[i].clientId)
            /\ ~(last'.op = "clear" /\ last'.room = sends[i].room) )
          => IF EventStep /\ last'.msg.clientId = sends[i].clientId
             THEN \E k \in DOMAIN roomCache'[sends[i].room].msgs :
                      roomCache'[sends[i].room].msgs[k] = last'.msg
             ELSE HasLocal(roomCache', sends[i].room, sends[i].clientId)]_vars

\* C16 witness: after the failure the user has switched to another room and
\* back, and the reloaded list holds the entry with local = true.
C16_Witness ==
    /\ last.op = "switch"
    /\ used.switches = 2
    /\ \E i \in DOMAIN sends :
          /\ Failed(i)
          /\ sends[i].room = currentRoom
          /\ HasLocal(roomCache, currentRoom, sends[i].clientId)

\* C17: a submit of empty or whitespace-only input changes nothing: no room
\* list, no send record (so no client identifier and no request), not the
\* input text, not the persisted state.
C17_EmptySubmitChangesNothing ==
    [][(last'.op \in {"send", "send-rejected"} /\ input \in {"", " "})
       => /\ last'.op = "send-rejected"
          /\ UNCHANGED <<roomCache, sends, input, localStorage, storedName, currentRoom,
                         username, userId, pending, sub, channels>>]_vars

\* C17 witness: the user has just submitted a whitespace-only input after an
\* earlier message was sent.
C17_Witness ==
    /\ last.op = "send-rejected"
    /\ input = " "
    /\ Len(sends) = 1

\* C18: reconciling an incoming message keeps every entry at its position:
\* an entry is either unchanged or, having the incoming client identifier,
\* replaced where it stands, and a newly accepted message is the last entry
\* (below the capacity, where nothing is evicted).
C18_ReconcileKeepsOrder ==
    [][EventStep =>
        LET m == last'.msg
            before == roomCache[sub].msgs
            after == roomCache'[sub].msgs
        IN  /\ Len(after) \in {Len(before), Len(before) + 1}
            /\ \A k \in DOMAIN before :
                  \/ after[k] = before[k]
                  \/ /\ Truthy(m.clientId)
                     /\ before[k].clientId = m.clientId
                     /\ after[k].clientId = m.clientId
            /\ Len(after) = Len(before) + 1 => after[Len(after)] = m]_vars

\* C18 witness: an event has just replaced the first of two entries, and the
\* entry behind it is still behind it.
C18_Witness ==
    /\ last.op = "event"
    /\ LET list == roomCache[last.room].msgs
       IN  /\ Len(list) >= 2
           /\ list[1] = last.msg
           /\ Truthy(last.msg.clientId)
           /\ list[2].clientId # last.msg.clientId

(***************************************************************************)
(* The service worker on its own: push events with any data, and clicks   *)
(* on the notifications shown, with some windows of the application open.  *)
(* The chat panel is mounted and idle.                                     *)
(***************************************************************************)
MaxPushes == 2

WindowLists ==
    { <<>>,
      <<WindowClient("https://app/", TRUE)>>,
      <<WindowClient("https://app/chat", TRUE)>>,
      <<WindowClient("https://app/", TRUE), WindowClient("https://app/chat", TRUE)>>,
      <<WindowClient("https://app/chat", TRUE), WindowClient("https://app/chat", TRUE)>>,
      <<WindowClient("https://app/chat", FALSE), WindowClient("https://app/chat", TRUE)>>,
      <<WindowClient("https://app/chat", FALSE)>> }

InitWorker ==
    /\ roomCache = [r \in Rooms |-> [def |-> r = "General", msgs |-> <<>>]]
    /\ currentRoom = "General"
    /\ input = ""
    /\ username = "alice"
    /\ userId = generateUserId
    /\ showDialog = FALSE
    /\ localStorage = [r \in Rooms |-> IF r = "General" THEN JSONstringify(<<>>) ELSE Absent]
    /\ storedName = "alice"
    /\ sub = "General"
    /\ channels = [live |-> <<"General">>, peak |-> 1]
    /\ pending = NoPending
    /\ sends = <<>>
    /\ now = 0
    /\ crashed = FALSE
    /\ last = Op("init", None, NoMsg)
    /\ used = [events |-> 0, switches |-> 0, clears |-> 0, renames |-> 0, advances |-> 0,
               log |-> <<>>, result |-> <<>>]
    /\ relay = NoRelay
    /\ \E w \in WindowLists : \E c \in BOOLEAN :
          sw = [NoWorker EXCEPT !.windows = w, !.canOpen = c]
    /\ beams = NoBeams

\* the push listener (lines 3-23)
push(data) ==
    /\ sw' = [sw EXCEPT
                 !.notifications = Append(@, showNotification(parsePayload(data))),
                 !.last = [NoEvent EXCEPT !.op = "push", !.data = data,
                                          !.n = Len(sw.notifications) + 1]]
    /\ UNCHANGED panel
    /\ UNCHANGED <<relay, beams>>

\* the first client of the list with the url and the focus method (lines
\* 33-37), 0 if there is none
firstMatch(clientList, url) ==
    LET hits == {k \in DOMAIN clientList : clientList[k].url = url /\ clientList[k].focus}
    IN  IF hits = {} THEN 0 ELSE CHOOSE k \in hits : \A j \in hits : k <= j

\* the notificationclick listener (lines 25-30) on the n-th notification, up
\* to the call of clients.matchAll: the notification is closed, the url read
notificationclick(n) ==
    /\ sw.notifications[n].open
    /\ sw' = [sw EXCEPT
                 !.notifications[n].open = FALSE,
                 !.clicks = Append(@, [n |-> n,
                                       url |-> orDefault(sw.notifications[n].url, "/"),
                                       clientList |-> sw.windows]),
                 !.last = [NoEvent EXCEPT !.op = "click", !.n = n]]
    /\ UNCHANGED panel
    /\ UNCHANGED <<relay, beams>>

\* The callbacks below run on the oldest unsettled click.  Windows are only
\* ever added at the end of sw.windows, so the k-th client of a client list
\* is the k-th window.
\* matchAllThen that goes on to open a window after focusing one
matchAllThenBoth ==
    /\ sw.clicks # <<>>
    /\ LET click == Head(sw.clicks)
           k == firstMatch(click.clientList, click.url)
           focused == IF k # 0 THEN [sw.windows EXCEPT ![k].focused = @ + 1] ELSE sw.windows
       IN  sw' = [sw EXCEPT
                    !.clicks = Tail(@),
                    !.windows = IF sw.canOpen
                                THEN Append(focused, WindowClient(resolve(click.url), TRUE))
                                ELSE focused,
                    !.last = [NoEvent EXCEPT !.op = "then", !.n = click.n, !.focused = k,
                                 !.opened = IF sw.canOpen THEN click.url ELSE None]]
    /\ UNCHANGED panel
    /\ UNCHANGED <<relay, beams>>

\* the callback of clients.matchAll(...).then (lines 31-42)
matchAllThen ==
    /\ sw.clicks # <<>>
    /\ LET click == Head(sw.clicks)
           k == firstMatch(click.clientList, click.url)
           opens == k = 0 /\ sw.canOpen
       IN  sw' = [sw EXCEPT
                    !.clicks = Tail(@),
                    !.windows = IF k # 0 THEN [@ EXCEPT ![k].focused = @ + 1]
                                ELSE IF opens
                                THEN Append(@, WindowClient(resolve(click.url), TRUE))
                                ELSE @,
                    !.last = [NoEvent EXCEPT !.op = "then", !.n = click.n, !.focused = k,
                                 !.opened = IF opens THEN click.url ELSE None]]
    /\ UNCHANGED panel
    /\ UNCHANGED <<relay, beams>>

NextWorker ==
    \/ Len(sw.notifications) < MaxPushes /\ \E data \in PushData : push(data)
    \/ \E n \in DOMAIN sw.notifications : notificationclick(n)
    \/ matchAllThen

SpecWorker == InitWorker /\ [][NextWorker]_vars

\* the field of the push data is present: the data parses to an object whose
\* notification has a non-empty value for it
Present(data, field) == data.kind = "json" /\ data.payload[field] \notin {None, ""}

\* C19: every push event adds exactly one notification to those displayed,
\* also when the data is absent or does not parse; each of its fields is the
\* payload's where present, and otherwise the fixed default: title
\* "New Notification", body "", icon "/icon.png", url "/".
C19_OneNotificationWithDefaults ==
    [][sw'.last.op = "push" =>
        LET data == sw'.last.data
            shown == sw'.notifications
            field(f, default) == IF Present(data, f) THEN data.payload[f] ELSE default
        IN  /\ Len(shown) = Len(sw.notifications) + 1
            /\ SubSeq(shown, 1, Len(sw.notifications)) = sw.notifications
            /\ shown[Len(shown)] = [title |-> field("title", "New Notification"),
                                    body |-> field("body", ""),
                                    icon |-> field("icon", "/icon.png"),
                                    url |-> field("url", "/"),
                                    open |-> TRUE]]_vars

\* C19 witness: a push whose data does not parse has just been handled and
\* the notification with all four defaults is displayed.
C19_Witness ==
    /\ sw.last.op = "push"
    /\ sw.last.data.kind = "bad"
    /\ sw.notifications[sw.last.n] =
          [title |-> "New Notification", body |-> "", icon |-> "/icon.png", url |-> "/",
           open |-> TRUE]

\* the step is the listener's part of a click on notification n
ClickStep(n) == sw'.last.op = "click" /\ sw'.last.n = n
\* the step is the callback of the oldest unsettled click
ThenStep == sw'.last.op = "then"
\* the windows that the step focused
FocusedBy == {k \in DOMAIN sw.windows : sw'.windows[k].focused = sw.windows[k].focused + 1}
\* the step left window k as it was
Untouched(k) == sw'.windows[k] = sw.windows[k]

\* C20: a click closes the notification and then either focuses one open
\* window whose URL equals the notification's URL, if there is such a
\* window, or else opens a new window at that URL; never both.
C20_FocusOrOpen ==
    [][/\ \A n \in DOMAIN sw.notifications :
             ClickStep(n) => ~sw'.notifications[n].open
       /\ ThenStep =>
            LET target == sw.notifications[Head(sw.clicks).n].url
                matching == {k \in DOMAIN sw.windows : sw.windows[k].url = target}
            IN  IF matching # {}
                THEN /\ Len(sw'.windows) = Len(sw.windows)
                     /\ \E k \in matching : FocusedBy = {k}
                     /\ sw'.last.opened = None
                ELSE /\ Len(sw'.windows) = Len(sw.windows) + 1
                     /\ sw'.last.opened = target
                     /\ FocusedBy = {}]_vars

\* C20, amended: a click closes the notification, and only it.  Later, of
\* the window clients that were open at the click, the first that has the
\* focus method and whose url is, as a string, the notification's url is
\* focused; if there is none, a new window is opened at that url where
\* clients.openWindow exists, and nothing more is done where it does not.
C20_FocusFirstOrOpenIfPossible ==
    [][/\ \A n \in DOMAIN sw.notifications :
             ClickStep(n) =>
                /\ ~sw'.notifications[n].open
                /\ \A m \in DOMAIN sw.notifications \ {n} :
                      sw'.notifications[m] = sw.notifications[m]
                /\ sw'.windows = sw.windows
       /\ ThenStep =>
            LET target == sw.notifications[Head(sw.clicks).n].url
                atClick == Head(sw.clicks).clientList
                matching == {k \in DOMAIN atClick :
                                atClick[k].url = target /\ atClick[k].focus}
            IN  /\ sw'.notifications = sw.notifications
                /\ IF matching # {}
                   THEN /\ Len(sw'.windows) = Len(sw.windows)
                        /\ \E k \in matching :
                              /\ \A j \in matching : k <= j
                              /\ FocusedBy = {k}
                              /\ \A j \in DOMAIN sw.windows \ {k} : Untouched(j)
                        /\ sw'.last.opened = None
                   ELSE /\ FocusedBy = {}
                        /\ \A j \in DOMAIN sw.windows : Untouched(j)
                        /\ IF sw.canOpen
                           THEN /\ Len(sw'.windows) = Len(sw.windows) + 1
                                /\ sw'.last.opened = target
                           ELSE /\ sw'.windows = sw.windows
                                /\ sw'.last.opened = None]_vars

\* C20 witness: of two open windows at the notification's URL the click has
\* focused the first and opened none.
C20_Witness ==
    /\ sw.last.op = "then"
    /\ sw.last.focused = 1
    /\ sw.last.opened = None
    /\ Len(sw.windows) = 2
    /\ sw.windows[1].focused = 1 /\ sw.windows[2].focused = 0
    /\ sw.windows[2].url = sw.notifications[sw.last.n].url
    /\ ~sw.notifications[sw.last.n].open

(***************************************************************************)
(* The panel at the capacity of a room: General is filled by events of     *)
(* another user up to one entry below MESSAGE_LIMIT, and then the user     *)
(* sends, receives, switches rooms, clears and renames.                    *)
(***************************************************************************)
\* bounded operations after the fill
CapOps == 3
Filled == used.events >= MESSAGE_LIMIT - 1
AfterFill == (used.events - (MESSAGE_LIMIT - 1)) + Len(sends) + used.switches
             + used.clears + used.renames
MoreCap == Filled /\ AfterFill < CapOps

\* Messages of the sender and text of the fill that carry no identifier: one
\* step of the clock before and after the last message of the fill, and two
\* duplicate windows after the latest message the fill can deliver.
TwinPayloads ==
    { ChatMessage(None, None, "u2", "bob", "hi", ts, None) :
         ts \in { (MESSAGE_LIMIT - 1) * DUPLICATE_WINDOW_MS - Tick,
                  (MESSAGE_LIMIT - 1) * DUPLICATE_WINDOW_MS + Tick,
                  (MESSAGE_LIMIT + CapOps + 1) * DUPLICATE_WINDOW_MS } }

NextCap ==
    \/ RunEffects /\ UNCHANGED outside
    \/ ~Filled /\ PusherEvent(FillPayload(used.events + 1)) /\ UNCHANGED outside
    \/ MoreCap /\ sub # None /\ UNCHANGED outside
       /\ \E data \in {FillPayload(used.events + 1)} \cup TwinPayloads
                      \cup UNION {EchoPayloads(i) :
                                     i \in {j \in DOMAIN sends : sends[j].room = sub}} :
             PusherEvent(data)
    \/ MoreCap /\ Len(sends) < MaxSends /\ input = "" /\ TypeInput("hi")
       /\ UNCHANGED outside
    \/ MoreCap /\ Len(sends) < MaxSends /\ Truthy(trim(input)) /\ sendMessage
       /\ UNCHANGED outside
    \/ UNCHANGED outside
       /\ \E i \in DOMAIN sends : \E body \in ResponseBodies(i) : HttpOk(i, body)
    \/ UNCHANGED outside
       /\ \E i \in DOMAIN sends : HttpFail(i, "not-ok")
    \/ MoreCap /\ used.switches < MaxSwitches /\ UNCHANGED outside
       /\ \E room \in {"General", "Random"} : handleRoomChange(room)
    \/ MoreCap /\ used.clears < MaxClears /\ clearCache /\ UNCHANGED outside
    \/ MoreCap /\ used.renames < MaxRenames /\ openUsernameDialog /\ UNCHANGED outside
    \/ MoreCap /\ used.renames < MaxRenames /\ handleUsernameSubmit("al")
       /\ UNCHANGED outside

SpecCap == InitFill /\ [][NextCap]_vars

\* C21: in every reachable state the in-memory list of every room has at
\* most 100 entries, whichever operation produced it: optimistic insert,
\* reconcile, response fix-up, reload from the storage, rename, clear.
C21_AtMostHundredEntries ==
    /\ MESSAGE_LIMIT = 100
    /\ \A room \in DOMAIN roomCache : Len(roomCache[room].msgs) <= 100

\* C21 witness: the rename's system message was added to a full list: the
\* list has 100 entries, the last is the system message and the oldest
\* entry is gone.
C21_Witness ==
    /\ last.op = "rename"
    /\ LET list == roomCache["General"].msgs
       IN  /\ Len(list) = 100
           /\ list[100].username = "System"
           /\ list[1].id # FillPayload(1).id

\* the step delivers again, to the same room, the message of the last
\* delivery, and the room's list is still as that delivery left it
Redelivery ==
    /\ EventStep
    /\ used.log # <<>>
    /\ used.log[Len(used.log)] = [room |-> sub, msg |-> last'.msg]
    /\ roomCache[sub].msgs = used.result

\* C22: delivering the same normalized inbound message twice in a row to the
\* same room yields the room list that delivering it once yields, and a
\* delivery whose server identifier an entry of the list already holds leaves
\* the cache as it is.
C22_DeliveryIdempotent ==
    [][/\ Redelivery => roomCache'[sub].msgs = roomCache[sub].msgs
       /\ ( /\ EventStep
            /\ Truthy(last'.msg.id)
            /\ \E k \in DOMAIN roomCache[sub].msgs :
                  roomCache[sub].msgs[k].id = last'.msg.id )
          => roomCache'[sub] = roomCache[sub]]_vars

\* the step is a clear of the active room
ClearStep == used'.clears = used.clears + 1

\* C23: clearing the cache empties the in-memory list and the persisted
\* entry of the active room, and they are still empty once the persist effect
\* has run; the in-memory list and the persisted entry of every other room
\* are as they were.
C23_ClearOnlyActiveRoom ==
    [][(ClearStep \/ last.op = "clear") =>
        /\ roomCache'[currentRoom].def
        /\ roomCache'[currentRoom].msgs = <<>>
        /\ loadRoomCache(localStorage', currentRoom) = <<>>
        /\ ~parseThrows(localStorage'[currentRoom])
        /\ \A r \in Rooms \ {currentRoom} :
              /\ roomCache'[r] = roomCache[r]
              /\ localStorage'[r] = localStorage[r]]_vars

\* C23 witness: the active room, to which the user had sent a message, was
\* just cleared, and another room still has its entries in memory and in
\* the storage.
C23_Witness ==
    /\ last.op = "clear"
    /\ roomCache[currentRoom].msgs = <<>>
    /\ localStorage[currentRoom] = Absent
    /\ \E i \in DOMAIN sends : sends[i].room = currentRoom
    /\ \E r \in Rooms \ {currentRoom} :
          /\ roomCache[r].msgs # <<>>
          /\ localStorage[r] = JSONstringify(roomCache[r].msgs)

\* every cached message of the user carries the user's current name
OwnRenamed(cache, uid, name) ==
    \A room \in DOMAIN cache :
        \A k \in DOMAIN cache[room].msgs :
            cache[room].msgs[k].userId = uid => cache[room].msgs[k].username = name
\* the step is a change of the display name
RenameStep == used'.renames = used.renames + 1

\* C24: the change of the display name leaves every cached message of the
\* user's userId with the new name, in every room, and every message of
\* another userId with its username; and once the name was changed, the
\* user's messages keep the current name over every later step, a switch to
\* any room included.  The steps that merge a response or an event into a
\* list are left out.
C24_RenameReachesEveryRoom ==
    [][/\ RenameStep =>
            /\ OwnRenamed(roomCache', userId, username')
            /\ \A room \in Rooms :
                  \A k \in DOMAIN roomCache[room].msgs :
                      roomCache[room].msgs[k].userId # userId
                      => roomCache'[room].msgs[k] = roomCache[room].msgs[k]
       /\ ( /\ used.renames > 0
            /\ OwnRenamed(roomCache, userId, username)
            /\ ~EventStep
            /\ \A i \in DOMAIN sends : ~ResponseStep(i) )
          => OwnRenamed(roomCache', userId, username')]_vars

\* C25: whenever the effects of the last render have run, the list persisted
\* for the active room is the active room's in-memory list, entry by entry
\* in the same order, after any sends, events, clears, renames and switches.
C25_PersistedEqualsActiveList ==
    (~crashed /\ ~pending.any)
    => /\ roomCache[currentRoom].def
       /\ localStorage[currentRoom] = JSONstringify(roomCache[currentRoom].msgs)

\* C25 witness: after a switch to another room the user has sent a message
\* and changed the name there, the effects have run, and the persisted list
\* of the active room holds the message and the system message.
C25_Witness ==
    /\ ~crashed /\ ~pending.any
    /\ used.switches > 0 /\ used.renames > 0
    /\ currentRoom # "General"
    /\ Len(roomCache[currentRoom].msgs) >= 2
    /\ localStorage[currentRoom].kind = "json"
    /\ localStorage[currentRoom].val = roomCache[currentRoom].msgs

(***************************************************************************)
(* The PushInit component: it mounts, its effect calls initBeams, the      *)
(* promises initBeams awaits settle, and the cleanup runs when the         *)
(* component unmounts, at any point of initBeams.  React may mount the     *)
(* component again after an unmount.                                       *)
(***************************************************************************)
MaxMounts == 2

InitBeams ==
    /\ roomCache = [r \in Rooms |-> [def |-> r = "General", msgs |-> <<>>]]
    /\ currentRoom = "General"
    /\ input = ""
    /\ username = "alice"
    /\ userId = generateUserId
    /\ showDialog = FALSE
    /\ localStorage = [r \in Rooms |-> IF r = "General" THEN JSONstringify(<<>>) ELSE Absent]
    /\ storedName = "alice"
    /\ sub = "General"
    /\ channels = [live |-> <<"General">>, peak |-> 1]
    /\ pending = NoPending
    /\ sends = <<>>
    /\ now = 0
    /\ crashed = FALSE
    /\ last = Op("init", None, NoMsg)
    /\ used = [events |-> 0, switches |-> 0, clears |-> 0, renames |-> 0, advances |-> 0,
               log |-> <<>>, result |-> <<>>]
    /\ relay = NoRelay
    /\ sw = NoWorker
    /\ \E s \in BOOLEAN : beams = [NoBeams EXCEPT !.supported = s]

\* the effect body (lines 8-38): initBeams runs up to its first await
initBeams ==
    /\ IF beams.runs = <<>> THEN TRUE ELSE beams.runs[Len(beams.runs)].cleaned
    /\ beams' = [beams EXCEPT
                    !.runs = Append(@, Run(IF beams.supported THEN "permission" ELSE "done"))]
    /\ UNCHANGED panel
    /\ UNCHANGED <<relay, sw>>

\* Notification.requestPermission() settles (lines 18-30): unless granted,
\* initBeams returns; else it creates the client and calls start()
requestPermissionSettled(i, permission) ==
    /\ beams.runs[i].pc = "permission"
    /\ beams' = [beams EXCEPT
                    !.runs[i] = IF permission # "granted"
                                THEN [@ EXCEPT !.pc = "done"]
                                ELSE [@ EXCEPT !.pc = "start", !.beamsClient = "client",
                                               !.started = TRUE]]
    /\ UNCHANGED panel
    /\ UNCHANGED <<relay, sw>>

\* beamsClient.start() settles (lines 30-35): rejected, the catch logs the
\* error; fulfilled, initBeams calls beamsClient.addDeviceInterest, which
\* throws a TypeError into the catch if the cleanup has set beamsClient to null
startSettled(i, ok) ==
    /\ beams.runs[i].pc = "start"
    /\ beams' = [beams EXCEPT
                    !.runs[i] = IF ok /\ @.beamsClient # None
                                THEN [@ EXCEPT !.pc = "interest", !.interest = TRUE]
                                ELSE [@ EXCEPT !.pc = "done"]]
    /\ UNCHANGED panel
    /\ UNCHANGED <<relay, sw>>

\* beamsClient.addDeviceInterest("hallo") settles (lines 31-35)
addDeviceInterestSettled(i) ==
    /\ beams.runs[i].pc = "interest"
    /\ beams' = [beams EXCEPT !.runs[i].pc = "done"]
    /\ UNCHANGED panel
    /\ UNCHANGED <<relay, sw>>

\* the cleanup of the effect (lines 40-43): beamsClient?.stop(), then
\* beamsClient = null
cleanup(i) ==
    /\ ~beams.runs[i].cleaned
    /\ beams' = [beams EXCEPT
                    !.runs[i].stopped = @ \/ beams.runs[i].beamsClient # None,
                    !.runs[i].beamsClient = None,
                    !.runs[i].cleaned = TRUE]
    /\ UNCHANGED panel
    /\ UNCHANGED <<relay, sw>>

NextBeams ==
    \/ Len(beams.runs) < MaxMounts /\ initBeams
    \/ \E i \in DOMAIN beams.runs :
          \E permission \in {"granted", "denied", "default"} :
              requestPermissionSettled(i, permission)
    \/ \E i \in DOMAIN beams.runs : \E ok \in BOOLEAN : startSettled(i, ok)
    \/ \E i \in DOMAIN beams.runs : addDeviceInterestSettled(i)
    \/ \E i \in DOMAIN beams.runs : cleanup(i)

SpecBeams == InitBeams /\ [][NextBeams]_vars

\* C26: after the cleanup of a run of the effect, no client is left running:
\* on every client that initBeams has started, the cleanup has called stop(),
\* also when the cleanup ran while initBeams was awaiting the permission
\* prompt or the client's start.
C26_CleanupStopsEveryClient ==
    \A i \in DOMAIN beams.runs :
        (beams.runs[i].cleaned /\ beams.runs[i].started) => beams.runs[i].stopped

\* C6, amended: an incoming message that matches no entry by client or server
\* identifier and lies more than 5000 ms from every entry with its sender name
\* and text becomes the new last entry; the entries before it stay, in their
\* order, except that a list that already held 100 entries loses its oldest.
C6_FarFromEveryTwinIsAppended ==
    [][EventStep =>
        LET m == last'.msg
            before == roomCache[sub].msgs
            after == roomCache'[sub].msgs
            twins == {k \in DOMAIN before : /\ before[k].username = m.username
                                           /\ before[k].message = m.message}
        IN  ( /\ \A k \in DOMAIN before :
                    /\ ~(Truthy(m.clientId) /\ before[k].clientId = m.clientId)
                    /\ ~(Truthy(m.id) /\ before[k].id = m.id)
              /\ \A k \in twins : /\ m.timestamp >= 0
                                  /\ before[k].timestamp >= 0
                                  /\ Abs(before[k].timestamp - m.timestamp) > 5000 )
            => IF Len(before) < 100
               THEN after = Append(before, m)
               ELSE /\ Len(after) = 100
                    /\ after[100] = m
                    /\ \A k \in 1..99 : after[k] = before[k + 1]]_vars

\* C6 witness: the event just handled is the last of 100 entries, an earlier
\* entry has its sender name and text and a timestamp more than 5000 ms away,
\* and the oldest message of the fill is gone.
C6_Witness ==
    /\ last.op = "event"
    /\ LET list == roomCache[last.room].msgs
       IN  /\ Len(list) = 100
           /\ list[100] = last.msg
           /\ list[1].id # FillPayload(1).id
           /\ \E j \in 1..99 :
                 /\ list[j].username = last.msg.username
                 /\ list[j].message = last.msg.message
                 /\ list[j].timestamp >= 0 /\ last.msg.timestamp >= 0
                 /\ Abs(list[j].timestamp - last.msg.timestamp) > 5000
           /\ \A j \in 1..99 : list[j].id # last.msg.id \/ ~Truthy(last.msg.id)

====
